---- MODULE Spec2Model ----
(***************************************************************************)
(* The 1h strategy pipeline: generate_trades.py turns an hourly OHLC CSV   *)
(* into one trade-window CSV per trade under buy/ and short/, and          *)
(* analyze_trades.py turns those CSVs into per-trade metrics and a         *)
(* per-direction summary under analysis/.                                  *)
(*                                                                         *)
(* Prices are integer ticks (strictly positive index quotes).  A ratio     *)
(* such as value / entry_price * 100 is kept exact as the pair             *)
(* [num |-> value * 100, den |-> entry_price].  A calendar date is its day *)
(* number, and the `time` column is date * 24 + hour.                      *)
(***************************************************************************)
EXTENDS Integers, Sequences, FiniteSets, TLC

VARIABLES csv, cfg, pre, buyDir, shortDir, analysisDir, windows, last, done

vars == <<csv, cfg, pre, buyDir, shortDir, analysisDir, windows, last, done>>

(* ---------------- bounds of the model ---------------- *)
\* Rows of the source CSV; a file of MaxRows rows spans at most MaxRows dates.
MaxRows == 3
\* Rows of a trade CSV handed to the aggregator on its own, and its price levels.
MaxBars == 2
MaxTick == 3

(* ---------------- program constants ---------------- *)
SignalHour == 23
DefaultEntryHour == 11
HoursPerDay == 24

Hours == {DefaultEntryHour, SignalHour}
Dates == 1..MaxRows
Ticks == 1..MaxTick
\* <<open, close>> of the candles of the source CSV: one per branch of
\* determine_signal (bearish, bullish, flat); each has a wick of one tick.
Candles == {<<3, 2>>, <<2, 3>>, <<2, 2>>}

Max2(a, b) == IF a >= b THEN a ELSE b
Min2(a, b) == IF a <= b THEN a ELSE b

(* ---------------- generic table helpers ---------------- *)
\* sort_values / sorted: the rows in ascending order of their keys (keys[i] is
\* the key of rows[i]); rows with equal keys keep their order.
SortBy(rows, keys) ==
    LET \* the indices 1..i in ascending order of their keys, ties in index order
        Order[i \in 0..Len(rows)] ==
            IF i = 0 THEN << >>
            ELSE LET before == Order[i - 1]
                     p == Cardinality({j \in 1..(i - 1) : keys[j] <= keys[i]})
                 IN SubSeq(before, 1, p) \o << i >> \o SubSeq(before, p + 1, i - 1)
        order == Order[Len(rows)]
    IN [p \in 1..Len(rows) |-> rows[order[p]]]

\* df.loc[mask]: the rows whose mask entry is true, in table order.
Filter(rows, mask) ==
    LET F[i \in 0..Len(rows)] ==
            IF i = 0 THEN << >>
            ELSE IF mask[i] THEN Append(F[i - 1], rows[i]) ELSE F[i - 1]
    IN F[Len(rows)]

(* ---------------- generate_trades.py ---------------- *)
\* load_price_data without the sort by timestamp.
load_price_data_unsorted(csv_rows) ==
    LET stamped == [i \in 1..Len(csv_rows) |->
                      [time |-> csv_rows[i].time, open |-> csv_rows[i].open,
                       high |-> csv_rows[i].high, low |-> csv_rows[i].low,
                       close |-> csv_rows[i].close, timestamp |-> csv_rows[i].time]]
    IN [i \in 1..Len(stamped) |->
          [time |-> stamped[i].time, open |-> stamped[i].open,
           high |-> stamped[i].high, low |-> stamped[i].low,
           close |-> stamped[i].close, timestamp |-> stamped[i].timestamp,
           date |-> stamped[i].timestamp \div HoursPerDay,
           hour |-> stamped[i].timestamp % HoursPerDay]]

load_price_data(csv_rows) ==
    LET stamped == [i \in 1..Len(csv_rows) |->
                      [time |-> csv_rows[i].time, open |-> csv_rows[i].open,
                       high |-> csv_rows[i].high, low |-> csv_rows[i].low,
                       close |-> csv_rows[i].close, timestamp |-> csv_rows[i].time]]
        sorted == SortBy(stamped, [i \in 1..Len(stamped) |-> stamped[i].timestamp])
    IN [i \in 1..Len(sorted) |->
          [time |-> sorted[i].time, open |-> sorted[i].open,
           high |-> sorted[i].high, low |-> sorted[i].low,
           close |-> sorted[i].close, timestamp |-> sorted[i].timestamp,
           date |-> sorted[i].timestamp \div HoursPerDay,
           hour |-> sorted[i].timestamp % HoursPerDay]]

\* determine_signal with the two directions exchanged.
determine_signal_inverted(day_df) ==
    LET hour_23 == Filter(day_df, [i \in 1..Len(day_df) |-> day_df[i].hour = SignalHour])
    IN IF hour_23 = << >> THEN "None"
       ELSE IF hour_23[1].close < hour_23[1].open THEN "short"
       ELSE IF hour_23[1].close > hour_23[1].open THEN "buy"
       ELSE "None"

determine_signal(day_df) ==
    LET hour_23 == Filter(day_df, [i \in 1..Len(day_df) |-> day_df[i].hour = SignalHour])
    IN IF hour_23 = << >> THEN "None"
       ELSE IF hour_23[1].close < hour_23[1].open THEN "buy"
       ELSE IF hour_23[1].close > hour_23[1].open THEN "short"
       ELSE "None"

Pct(value, entry_price) == [num |-> value * 100, den |-> entry_price]

WindowRow(r, signal_day, trade_day, direction, entry_price, entry_hour, price_delta) ==
    [time |-> r.time, open |-> r.open, high |-> r.high, low |-> r.low,
     close |-> r.close, timestamp |-> r.timestamp, date |-> r.date, hour |-> r.hour,
     signal_day |-> signal_day, trade_day |-> trade_day, direction |-> direction,
     entry_price |-> entry_price, hours_from_entry |-> r.hour - entry_hour,
     price_delta_from_entry |-> price_delta,
     return_pct_from_entry |-> Pct(price_delta, entry_price)]

\* build_trade_window with the Long formula applied to both directions.
build_trade_window_one_sign(trade_df, signal_day, direction, entry_hour, exit_hour) ==
    LET entry_rows == Filter(trade_df, [i \in 1..Len(trade_df) |-> trade_df[i].hour = entry_hour])
        exit_rows == Filter(trade_df, [i \in 1..Len(trade_df) |-> trade_df[i].hour = exit_hour])
        mask == [i \in 1..Len(trade_df) |->
                   trade_df[i].hour >= entry_hour /\ trade_df[i].hour <= exit_hour]
        window == Filter(trade_df, mask)
    IN IF entry_rows = << >> \/ exit_rows = << >> THEN << >>
       ELSE IF window = << >> THEN << >>
       ELSE LET entry_price == entry_rows[1].open
                trade_day == window[1].date
            IN << [signal_day |-> signal_day, trade_day |-> trade_day,
                   direction |-> direction, entry_price |-> entry_price,
                   data |-> [i \in 1..Len(window) |->
                               WindowRow(window[i], signal_day, trade_day, direction,
                                         entry_price, entry_hour,
                                         window[i].close - entry_price)]] >>

\* build_trade_window that tests the entry rows only.
build_trade_window_entry_only(trade_df, signal_day, direction, entry_hour, exit_hour) ==
    LET entry_rows == Filter(trade_df, [i \in 1..Len(trade_df) |-> trade_df[i].hour = entry_hour])
        mask == [i \in 1..Len(trade_df) |->
                   trade_df[i].hour >= entry_hour /\ trade_df[i].hour <= exit_hour]
        window == Filter(trade_df, mask)
    IN IF entry_rows = << >> THEN << >>
       ELSE IF window = << >> THEN << >>
       ELSE LET entry_price == entry_rows[1].open
                trade_day == window[1].date
                Delta(r) == IF direction = "buy" THEN r.close - entry_price
                            ELSE entry_price - r.close
            IN << [signal_day |-> signal_day, trade_day |-> trade_day,
                   direction |-> direction, entry_price |-> entry_price,
                   data |-> [i \in 1..Len(window) |->
                               WindowRow(window[i], signal_day, trade_day, direction,
                                         entry_price, entry_hour, Delta(window[i]))]] >>

\* The optional result is a sequence holding no window (None) or one window.
build_trade_window(trade_df, signal_day, direction, entry_hour, exit_hour) ==
    LET entry_rows == Filter(trade_df, [i \in 1..Len(trade_df) |-> trade_df[i].hour = entry_hour])
        exit_rows == Filter(trade_df, [i \in 1..Len(trade_df) |-> trade_df[i].hour = exit_hour])
        mask == [i \in 1..Len(trade_df) |->
                   trade_df[i].hour >= entry_hour /\ trade_df[i].hour <= exit_hour]
        window == Filter(trade_df, mask)
    IN IF entry_rows = << >> \/ exit_rows = << >> THEN << >>
       ELSE IF window = << >> THEN << >>
       ELSE LET entry_price == entry_rows[1].open
                trade_day == window[1].date
                Delta(r) == IF direction = "buy" THEN r.close - entry_price
                            ELSE entry_price - r.close
            IN << [signal_day |-> signal_day, trade_day |-> trade_day,
                   direction |-> direction, entry_price |-> entry_price,
                   data |-> [i \in 1..Len(window) |->
                               WindowRow(window[i], signal_day, trade_day, direction,
                                         entry_price, entry_hour, Delta(window[i]))]] >>

RECURSIVE AscendingSeq(_)
AscendingSeq(S) ==
    IF S = {} THEN << >>
    ELSE LET m == CHOOSE x \in S : \A y \in S : x <= y
         IN << m >> \o AscendingSeq(S \ {m})

iter_daily_data(df) ==
    LET dates == AscendingSeq({df[i].date : i \in 1..Len(df)})
    IN [k \in 1..Len(dates) |->
          Filter(df, [i \in 1..Len(df) |-> df[i].date = dates[k]])]

RECURSIVE GenerateFrom(_, _, _, _)
GenerateFrom(days, idx, entry_hour, exit_hour) ==
    IF idx > Len(days) - 1 THEN << >>
    ELSE LET signal_day_df == days[idx]
             trade_day_df == days[idx + 1]
             signal_day == signal_day_df[1].date
             direction == determine_signal(signal_day_df)
             rest == GenerateFrom(days, idx + 1, entry_hour, exit_hour)
         IN IF direction = "None" THEN rest
            ELSE build_trade_window(trade_day_df, signal_day, direction,
                                    entry_hour, exit_hour) \o rest

generate_trade_windows(df, entry_hour, exit_hour) ==
    GenerateFrom(iter_daily_data(df), 1, entry_hour, exit_hour)

\* A file name that leaves the two dates out.
FileNameByDirection(window) == << 0, 0, window.direction >>

\* trade_{trade_str}_signal_{signal_str}_{direction}.csv
FileName(window) == << window.trade_day, window.signal_day, window.direction >>

\* Writing in append mode: an existing file keeps its rows.
WriteFileAppend(dir, name, data) ==
    IF name \in DOMAIN dir THEN (name :> (dir[name] \o data)) @@ dir
    ELSE (name :> data) @@ dir

\* A directory is a function from file names to file contents; writing a name
\* that exists replaces its contents (to_csv truncates).
WriteFile(dir, name, data) == (name :> data) @@ dir

\* output_dir is the pair of folders [buy |-> ..., short |-> ...].
RECURSIVE write_trade_windows(_, _)
write_trade_windows(ws, output_dir) ==
    IF ws = << >> THEN output_dir
    ELSE LET window == Head(ws)
             file_name == FileName(window)
         IN IF window.direction = "buy"
            THEN write_trade_windows(Tail(ws),
                    [output_dir EXCEPT !.buy = WriteFile(@, file_name, window.data)])
            ELSE write_trade_windows(Tail(ws),
                    [output_dir EXCEPT !.short = WriteFile(@, file_name, window.data)])

(* ---------------- analyze_trades.py ---------------- *)
\* df[name]: one column of a table.
Column(df, name) == [i \in 1..Len(df) |-> df[i][name]]

\* Series.max() / Series.min() of a non-empty column.
ColMax(column) ==
    LET M[i \in 1..Len(column)] ==
            IF i = 1 THEN column[1] ELSE Max2(M[i - 1], column[i])
    IN M[Len(column)]

ColMin(column) ==
    LET M[i \in 1..Len(column)] ==
            IF i = 1 THEN column[1] ELSE Min2(M[i - 1], column[i])
    IN M[Len(column)]

TradeMetrics(df, direction, entry_price, exit_price, final_return, max_return, max_drawdown) ==
    [trade_day |-> df[1].trade_day, signal_day |-> df[1].signal_day,
     direction |-> direction, entry_price |-> entry_price, exit_price |-> exit_price,
     final_return |-> final_return, final_return_pct |-> Pct(final_return, entry_price),
     max_return |-> max_return, max_return_pct |-> Pct(max_return, entry_price),
     max_drawdown |-> max_drawdown, max_drawdown_pct |-> Pct(max_drawdown, entry_price),
     hours_captured |-> Len(df)]

\* compute_buy_metrics without the clamp at zero.
compute_buy_metrics_unclamped(df) ==
    LET entry_price == df[1].entry_price
        exit_price == df[Len(df)].close
        max_price == Max2(ColMax(Column(df, "close")), ColMax(Column(df, "high")))
        min_price == ColMin(Column(df, "low"))
    IN TradeMetrics(df, "buy", entry_price, exit_price, exit_price - entry_price,
                    max_price - entry_price, entry_price - min_price)

compute_buy_metrics(df) ==
    LET entry_price == df[1].entry_price
        exit_price == df[Len(df)].close
        max_price == Max2(ColMax(Column(df, "close")), ColMax(Column(df, "high")))
        min_price == ColMin(Column(df, "low"))
        max_return == Max2(0, max_price - entry_price)
        max_drawdown == Max2(0, entry_price - min_price)
        final_return == exit_price - entry_price
    IN TradeMetrics(df, "buy", entry_price, exit_price, final_return,
                    max_return, max_drawdown)

\* compute_short_metrics with the Long sign of the final return.
compute_short_metrics_long_sign(df) ==
    LET entry_price == df[1].entry_price
        exit_price == df[Len(df)].close
        min_price == Min2(ColMin(Column(df, "close")), ColMin(Column(df, "low")))
        max_price == Max2(ColMax(Column(df, "close")), ColMax(Column(df, "high")))
    IN TradeMetrics(df, "short", entry_price, exit_price, exit_price - entry_price,
                    Max2(0, entry_price - min_price), Max2(0, max_price - entry_price))

compute_short_metrics(df) ==
    LET entry_price == df[1].entry_price
        exit_price == df[Len(df)].close
        min_price == Min2(ColMin(Column(df, "close")), ColMin(Column(df, "low")))
        max_price == Max2(ColMax(Column(df, "close")), ColMax(Column(df, "high")))
        max_return == Max2(0, entry_price - min_price)
        max_drawdown == Max2(0, max_price - entry_price)
        final_return == entry_price - exit_price
    IN TradeMetrics(df, "short", entry_price, exit_price, final_return,
                    max_return, max_drawdown)

\* File names order as their text does: by trade date, then by signal date.
PathKey(name) == name[1] * HoursPerDay * HoursPerDay + name[2]

\* sorted(folder.glob("*.csv")): the names of the folder in ascending order.
gather_csv_paths(folder) ==
    LET names == DOMAIN folder
    IN [i \in 1..Cardinality(names) |->
          CHOOSE n \in names :
              Cardinality({m \in names : PathKey(m) < PathKey(n)}) = i - 1]

\* load_trade_csv rejects an empty table; the required columns are fields of
\* every row of the model.
load_trade_csv_ok(folder, path) == Len(folder[path]) > 0

gather_trade_metrics(folder, paths, direction) ==
    LET ordered == SortBy(paths, [i \in 1..Len(paths) |-> PathKey(paths[i])])
    IN [i \in 1..Len(ordered) |->
          IF direction = "buy" THEN compute_buy_metrics(folder[ordered[i]])
          ELSE compute_short_metrics(folder[ordered[i]])]

write_metrics_csv(rows) ==
    IF rows = << >> THEN << >> ELSE SortBy(rows, Column(rows, "trade_day"))

\* sum(...) over a column.
SumOf(column) ==
    LET S[i \in 0..Len(column)] == IF i = 0 THEN 0 ELSE S[i - 1] + column[i]
    IN S[Len(column)]

\* sum / count kept exact; 0.0 is 0 / 1.
Mean(total, count) ==
    IF count # 0 THEN [num |-> total, den |-> count] ELSE [num |-> 0, den |-> 1]

\* summarize_metrics summing max_return where max_drawdown is meant.
summarize_metrics_wrong_column(rows, direction) ==
    LET count == Len(rows)
        sum_final == SumOf(Column(rows, "final_return"))
        sum_max_return == SumOf(Column(rows, "max_return"))
        sum_max_drawdown == SumOf(Column(rows, "max_return"))
    IN [direction |-> direction, trade_count |-> count,
        sum_final_return |-> sum_final, sum_max_return |-> sum_max_return,
        sum_max_drawdown |-> sum_max_drawdown,
        avg_final_return |-> Mean(sum_final, count),
        avg_max_return |-> Mean(sum_max_return, count),
        avg_max_drawdown |-> Mean(sum_max_drawdown, count)]

summarize_metrics(rows, direction) ==
    LET count == Len(rows)
        sum_final == SumOf(Column(rows, "final_return"))
        sum_max_return == SumOf(Column(rows, "max_return"))
        sum_max_drawdown == SumOf(Column(rows, "max_drawdown"))
    IN [direction |-> direction, trade_count |-> count,
        sum_final_return |-> sum_final, sum_max_return |-> sum_max_return,
        sum_max_drawdown |-> sum_max_drawdown,
        avg_final_return |-> Mean(sum_final, count),
        avg_max_return |-> Mean(sum_max_return, count),
        avg_max_drawdown |-> Mean(sum_max_drawdown, count)]

(* ---------------- the inputs ---------------- *)
\* One row of the source CSV: the hourly candle of day `date` at `hour`.
CsvRow(date, hour, candle) ==
    [time |-> date * HoursPerDay + hour, open |-> candle[1],
     high |-> Max2(candle[1], candle[2]) + 1, low |-> Min2(candle[1], candle[2]) - 1,
     close |-> candle[2]]

CsvRows == {CsvRow(d, h, c) : d \in Dates, h \in Hours, c \in Candles}

RowKey(r) == (r.time * HoursPerDay + r.open) * HoursPerDay + r.close

RECURSIVE SetsUpTo(_)
SetsUpTo(n) ==
    IF n = 0 THEN {{}}
    ELSE LET smaller == SetsUpTo(n - 1)
         IN smaller \cup {s \cup {r} : s \in smaller, r \in CsvRows}

Ascending(S) ==
    [i \in 1..Cardinality(S) |->
       CHOOSE r \in S : Cardinality({q \in S : RowKey(q) < RowKey(r)}) = i - 1]

Reverse(s) == [i \in 1..Len(s) |-> s[Len(s) + 1 - i]]

\* The file is in ascending or in descending order of its rows.
CsvFiles == {Ascending(S) : S \in SetsUpTo(MaxRows)} \cup
            {Reverse(Ascending(S)) : S \in SetsUpTo(MaxRows)}

\* --entry-hour / --exit-hour as main accepts them: 0 <= entry <= exit <= 23.
Configs == {c \in [entry_hour : Hours, exit_hour : Hours] : c.entry_hour <= c.exit_hour}

\* A trade file left in the output folder by an earlier run over other data.
StaleFile(direction) ==
    LET old == load_price_data(<< CsvRow(2, DefaultEntryHour, <<3, 3>>) >>)
        w == build_trade_window(old, 1, direction, DefaultEntryHour, DefaultEntryHour)[1]
    IN FileName(w) :> w.data

NoFiles == << >>

\* The output folders before the first run: empty, or holding stale files.
PreDirs == {[buy |-> NoFiles, short |-> NoFiles],
            [buy |-> StaleFile("buy"), short |-> StaleFile("short")]}

(* ---------------- the state machine ---------------- *)
Init ==
    /\ csv \in CsvFiles
    /\ cfg \in Configs
    /\ pre \in PreDirs
    /\ buyDir = pre.buy
    /\ shortDir = pre.short
    /\ analysisDir = NoFiles
    /\ windows = << >>
    /\ last = "none"
    /\ done = FALSE

\* generate_trades.py main: load, generate, write.
GenerateMain ==
    /\ cfg.entry_hour \in 0..23 /\ cfg.exit_hour \in 0..23
    /\ cfg.exit_hour >= cfg.entry_hour
    /\ LET df == load_price_data(csv)
           ws == generate_trade_windows(df, cfg.entry_hour, cfg.exit_hour)
           out == write_trade_windows(ws, [buy |-> buyDir, short |-> shortDir])
       IN /\ windows' = ws
          /\ buyDir' = out.buy
          /\ shortDir' = out.short
    /\ last' = "generate"
    /\ UNCHANGED <<csv, cfg, pre, analysisDir, done>>

\* analyze_trades.py main: gather, compute, write metrics and summary.
AnalyzeMain ==
    /\ LET buy_paths == gather_csv_paths(buyDir)
           short_paths == gather_csv_paths(shortDir)
       IN /\ \A i \in 1..Len(buy_paths) : load_trade_csv_ok(buyDir, buy_paths[i])
          /\ \A i \in 1..Len(short_paths) : load_trade_csv_ok(shortDir, short_paths[i])
          /\ LET buy_metrics == gather_trade_metrics(buyDir, buy_paths, "buy")
                 short_metrics == gather_trade_metrics(shortDir, short_paths, "short")
                 summary_rows == << summarize_metrics(buy_metrics, "buy"),
                                    summarize_metrics(short_metrics, "short") >>
             IN analysisDir' =
                  WriteFile(WriteFile(WriteFile(analysisDir,
                      "buy_metrics.csv", write_metrics_csv(buy_metrics)),
                      "short_metrics.csv", write_metrics_csv(short_metrics)),
                      "summary.csv", summary_rows)
    /\ last' = "analyze"
    /\ done' = (done \/ last = "generate")
    /\ UNCHANGED <<csv, cfg, pre, buyDir, shortDir, windows>>

Next == GenerateMain \/ AnalyzeMain

Spec == Init /\ [][Next]_vars

(* ---------------- the aggregator on arbitrary trade CSVs ---------------- *)
DefaultExitHour == 21

\* A bar of a trade CSV as <<close, high, low>>; the aggregator reads no other
\* price column.  The wicks are ordered (low <= high); the close may lie outside
\* them, the case the aggregator provides for by taking the closes into max_price.
Bars == {b \in Ticks \X Ticks \X Ticks : b[3] <= b[2]}

BarSeqs == UNION {[1..n -> Bars] : n \in 1..MaxBars}

\* The trade CSV of a window of day 2 signalled on day 1, one bar per hour.
TradeCsv(direction, entry_price, bars) ==
    [i \in 1..Len(bars) |->
       WindowRow([time |-> 2 * HoursPerDay + DefaultEntryHour + i - 1,
                  open |-> entry_price, high |-> bars[i][2], low |-> bars[i][3],
                  close |-> bars[i][1],
                  timestamp |-> 2 * HoursPerDay + DefaultEntryHour + i - 1,
                  date |-> 2, hour |-> DefaultEntryHour + i - 1],
                 1, 2, direction, entry_price, DefaultEntryHour,
                 IF direction = "buy" THEN bars[i][1] - entry_price
                 ELSE entry_price - bars[i][1])]

InitMetrics ==
    /\ csv = << >>
    /\ cfg = [entry_hour |-> DefaultEntryHour, exit_hour |-> DefaultExitHour]
    /\ \E direction \in {"buy", "short"}, entry_price \in Ticks, bars \in BarSeqs :
          LET file == << 2, 1, direction >> :> TradeCsv(direction, entry_price, bars)
          IN pre = IF direction = "buy" THEN [buy |-> file, short |-> NoFiles]
                   ELSE [buy |-> NoFiles, short |-> file]
    /\ buyDir = pre.buy
    /\ shortDir = pre.short
    /\ analysisDir = NoFiles
    /\ windows = << >>
    /\ last = "none"
    /\ done = FALSE

NextMetrics == AnalyzeMain

SpecMetrics == InitMetrics /\ [][NextMetrics]_vars

(* ---------------- what the claims speak about ---------------- *)
\* The loaded series of the run.
Series == load_price_data(csv)
DatesOf(S) == {S[i].date : i \in 1..Len(S)}
\* day[i], day[i+1]: dates of the series with no date of the series between them.
DayPairs(S) == {p \in DatesOf(S) \X DatesOf(S) :
                  /\ p[1] < p[2]
                  /\ ~ \E x \in DatesOf(S) : p[1] < x /\ x < p[2]}
BarsAt(S, date, hour) == {i \in 1..Len(S) : S[i].date = date /\ S[i].hour = hour}
FirstBarAt(S, date, hour) ==
    S[CHOOSE i \in BarsAt(S, date, hour) : \A j \in BarsAt(S, date, hour) : i <= j]
WindowSet == {windows[i] : i \in 1..Len(windows)}
Generated == last = "generate" \/ done
SetMax(T) == CHOOSE m \in T : \A x \in T : x <= m
SetMin(T) == CHOOSE m \in T : \A x \in T : m <= x

(* ---------------- generator claims ---------------- *)
\* C1: for every consecutive day pair, a signal day with no hour-23 bar or with
\* a flat hour-23 bar (close = open) yields no window; otherwise every window of
\* the pair is Long (buy) when that bar closed below its open and Short when it
\* closed above.
C1_SignalDecidesDirection ==
    windows # << >> =>
    LET S == Series IN
    \A p \in DayPairs(S) :
        LET from_day == {w \in WindowSet : w.signal_day = p[1]}
        IN IF BarsAt(S, p[1], SignalHour) = {}
           THEN from_day = {}
           ELSE LET bar == FirstBarAt(S, p[1], SignalHour)
                IN /\ bar.close = bar.open => from_day = {}
                   /\ bar.close < bar.open => \A w \in from_day : w.direction = "buy"
                   /\ bar.close > bar.open => \A w \in from_day : w.direction = "short"

C1_Witness ==
    /\ Generated
    /\ windows # << >>
    /\ LET S == Series IN
       /\ \E w \in WindowSet :
             /\ w.direction = "buy"
             /\ FirstBarAt(S, w.signal_day, SignalHour).close
                  < FirstBarAt(S, w.signal_day, SignalHour).open
       /\ \E p \in DayPairs(S) :
             /\ BarsAt(S, p[1], SignalHour) # {}
             /\ FirstBarAt(S, p[1], SignalHour).close = FirstBarAt(S, p[1], SignalHour).open
             /\ BarsAt(S, p[2], cfg.entry_hour) # {}
             /\ BarsAt(S, p[2], cfg.exit_hour) # {}
             /\ ~ \E w \in WindowSet : w.trade_day = p[2]

\* C2: on every bar of every generated window the recorded entry price is the
\* open of the trade day's entry-hour bar, the price delta is close - entry for
\* Long and entry - close for Short, and the return is delta / entry * 100.
C2_DeltaSignConvention ==
    windows # << >> =>
    LET S == Series IN
    \A w \in WindowSet :
        /\ BarsAt(S, w.trade_day, cfg.entry_hour) # {}
        /\ w.entry_price = FirstBarAt(S, w.trade_day, cfg.entry_hour).open
        /\ \A i \in 1..Len(w.data) :
              LET bar == w.data[i]
                  delta == IF w.direction = "buy" THEN bar.close - w.entry_price
                           ELSE w.entry_price - bar.close
              IN /\ bar.entry_price = w.entry_price
                 /\ bar.direction = w.direction
                 /\ bar.price_delta_from_entry = delta
                 /\ bar.return_pct_from_entry.den # 0
                 /\ bar.return_pct_from_entry.num * w.entry_price
                      = delta * 100 * bar.return_pct_from_entry.den

C2_Witness ==
    /\ Generated
    /\ \E w \in WindowSet :
          /\ w.direction = "short"
          /\ Len(w.data) >= 2
          /\ \E i \in 1..Len(w.data) : w.data[i].price_delta_from_entry > 0
          /\ \E i \in 1..Len(w.data) : w.data[i].open # w.entry_price

\* C4: for every day pair whose signal is Long or Short, a window is produced
\* exactly when the trade day has a bar at the entry hour and a bar at the exit
\* hour; a pair lacking either is skipped and the later pairs are still served.
PairSignalled(S, p) ==
    /\ BarsAt(S, p[1], SignalHour) # {}
    /\ FirstBarAt(S, p[1], SignalHour).close # FirstBarAt(S, p[1], SignalHour).open

C4_MissingBoundarySkips ==
    Generated =>
    LET S == Series IN
        \A p \in DayPairs(S) :
            PairSignalled(S, p) =>
                ((\E w \in WindowSet : w.trade_day = p[2] /\ w.signal_day = p[1])
                   <=> (/\ BarsAt(S, p[2], cfg.entry_hour) # {}
                        /\ BarsAt(S, p[2], cfg.exit_hour) # {}))

C4_Witness ==
    /\ Generated
    /\ LET S == Series IN
       \E p \in DayPairs(S) :
          /\ PairSignalled(S, p)
          /\ BarsAt(S, p[2], cfg.entry_hour) # {}
          /\ BarsAt(S, p[2], cfg.exit_hour) = {}
          /\ ~ \E w \in WindowSet : w.trade_day = p[2]

\* C9: with entryHour <= exitHour, every bar of a generated window has its hour
\* in [entryHour, exitHour], hoursFromEntry never decreases along the bars, the
\* first bar is an entry-hour bar whose open is the entry price and the last
\* bar is an exit-hour bar.
C9_WindowShape ==
    \A w \in WindowSet :
        LET n == Len(w.data)
        IN /\ n >= 1
           /\ \A i \in 1..n : /\ w.data[i].hour >= cfg.entry_hour
                              /\ w.data[i].hour <= cfg.exit_hour
                              /\ w.data[i].hours_from_entry = w.data[i].hour - cfg.entry_hour
           /\ \A i \in 1..(n - 1) : w.data[i].hours_from_entry <= w.data[i + 1].hours_from_entry
           /\ w.data[1].hours_from_entry = 0
           /\ w.data[1].open = w.entry_price
           /\ w.data[n].hours_from_entry = cfg.exit_hour - cfg.entry_hour

C9_Witness ==
    /\ Generated
    /\ cfg.entry_hour < cfg.exit_hour
    /\ \E i \in 1..(Len(csv) - 1) : csv[i].time > csv[i + 1].time
    /\ \E w \in WindowSet :
          /\ Len(w.data) >= 2
          /\ w.data[1].hours_from_entry < w.data[Len(w.data)].hours_from_entry

\* C10: trade days strictly increase along the generated windows, each signal
\* day is the input date just before its trade day, distinct windows get
\* distinct file names, and into empty folders one file is written per window.
C10_OneFilePerWindow ==
    /\ \A i \in 1..Len(windows) : \A j \in 1..Len(windows) :
          i < j => /\ windows[i].trade_day < windows[j].trade_day
                   /\ FileName(windows[i]) # FileName(windows[j])
    /\ windows # << >> =>
          LET pairs == DayPairs(Series)
          IN \A w \in WindowSet : << w.signal_day, w.trade_day >> \in pairs
    /\ (Generated /\ pre.buy = NoFiles /\ pre.short = NoFiles) =>
          Cardinality(DOMAIN buyDir) + Cardinality(DOMAIN shortDir) = Len(windows)

C10_Witness ==
    /\ Generated
    /\ pre.buy = NoFiles /\ pre.short = NoFiles
    /\ Len(windows) >= 2
    /\ Cardinality(DOMAIN buyDir) = 2

(* ---------------- aggregator claims ---------------- *)
MetricsFile(direction) ==
    IF direction = "buy" THEN analysisDir["buy_metrics.csv"]
    ELSE analysisDir["short_metrics.csv"]
Folder(direction) == IF direction = "buy" THEN buyDir ELSE shortDir
Directions == {"buy", "short"}
Closes(df) == {df[i].close : i \in 1..Len(df)}
Highs(df) == {df[i].high : i \in 1..Len(df)}
Lows(df) == {df[i].low : i \in 1..Len(df)}

\* C3: every computed TradeMetrics has maxReturn >= 0 and maxDrawdown >= 0, in
\* both directions and on every price path.
C3_NonNegative ==
    last = "analyze" =>
        \A d \in Directions : \A i \in 1..Len(MetricsFile(d)) :
            /\ MetricsFile(d)[i].max_return >= 0
            /\ MetricsFile(d)[i].max_drawdown >= 0

\* A Long trade whose price never rose above the entry price.
C3_Witness ==
    /\ last = "analyze"
    /\ \E name \in DOMAIN buyDir :
          /\ \A x \in Closes(buyDir[name]) \cup Highs(buyDir[name]) :
                x < buyDir[name][1].entry_price
          /\ \E i \in 1..Len(MetricsFile("buy")) :
                /\ MetricsFile("buy")[i].max_return = 0
                /\ MetricsFile("buy")[i].max_drawdown > 0

\* C5: for every non-empty window, Long: maxReturn = max(0, max(closeMax,
\* highMax) - entry), maxDrawdown = max(0, entry - lowMin), finalReturn =
\* lastClose - entry; Short: maxReturn = max(0, entry - min(closeMin, lowMin)),
\* maxDrawdown = max(0, max(closeMax, highMax) - entry), finalReturn = entry -
\* lastClose; entry is the first bar's recorded entry price, lastClose the last
\* bar's close and hoursCaptured the number of bars.
MetricsAsClaimed(row, df, direction) ==
    LET entry == df[1].entry_price
        lastClose == df[Len(df)].close
        top == SetMax(Closes(df) \cup Highs(df))
    IN /\ row.direction = direction
       /\ row.entry_price = entry
       /\ row.exit_price = lastClose
       /\ row.hours_captured = Len(df)
       /\ IF direction = "buy"
          THEN /\ row.max_return = SetMax({0, top - entry})
               /\ row.max_drawdown = SetMax({0, entry - SetMin(Lows(df))})
               /\ row.final_return = lastClose - entry
          ELSE /\ row.max_return = SetMax({0, entry - SetMin(Closes(df) \cup Lows(df))})
               /\ row.max_drawdown = SetMax({0, top - entry})
               /\ row.final_return = entry - lastClose

C5_MetricsFormulas ==
    last = "analyze" =>
        \A d \in Directions :
            /\ Len(MetricsFile(d)) = Cardinality(DOMAIN Folder(d))
            /\ \A name \in DOMAIN Folder(d) :
                  \E i \in 1..Len(MetricsFile(d)) :
                      /\ MetricsFile(d)[i].trade_day = name[1]
                      /\ MetricsFile(d)[i].signal_day = name[2]
                      /\ MetricsAsClaimed(MetricsFile(d)[i], Folder(d)[name], d)

\* A Short trade of two bars that was ahead during the window and ended behind.
C5_Witness ==
    /\ last = "analyze"
    /\ \E name \in DOMAIN shortDir :
          /\ Len(shortDir[name]) = 2
          /\ \E i \in 1..Len(MetricsFile("short")) :
                /\ MetricsFile("short")[i].max_return > 0
                /\ MetricsFile("short")[i].max_drawdown > 0
                /\ MetricsFile("short")[i].final_return < 0
                /\ MetricsFile("short")[i].hours_captured = 2

\* C6: maxReturn and maxDrawdown both take the closes as well as the wicks
\* into account, in both directions, so no bar's close lies beyond the extreme
\* price used for either metric.
C6_ClosesWithinExtremes ==
    last = "analyze" =>
        \A d \in Directions : \A name \in DOMAIN Folder(d) :
            \A i \in 1..Len(MetricsFile(d)) :
                (MetricsFile(d)[i].trade_day = name[1] /\ MetricsFile(d)[i].signal_day = name[2]) =>
                    \A c \in Closes(Folder(d)[name]) :
                        LET entry == Folder(d)[name][1].entry_price
                            favourable == IF d = "buy" THEN c - entry ELSE entry - c
                        IN /\ favourable <= MetricsFile(d)[i].max_return
                           /\ 0 - favourable <= MetricsFile(d)[i].max_drawdown

\* C7: the summary has exactly two rows, buy and short; a direction without
\* trades has tradeCount 0 and averages 0; otherwise each sum is the sum of the
\* per-trade metric over the direction's metrics file and each average is that
\* sum divided by tradeCount.
RECURSIVE Total(_)
Total(numbers) == IF numbers = << >> THEN 0 ELSE Head(numbers) + Total(Tail(numbers))

IsQuotient(avg, total, count) == avg.den # 0 /\ avg.num * count = total * avg.den

C7_SummaryRows ==
    last = "analyze" =>
        LET summary == analysisDir["summary.csv"]
        IN /\ Len(summary) = 2
           /\ summary[1].direction = "buy"
           /\ summary[2].direction = "short"
           /\ \A k \in 1..2 :
                 LET row == summary[k]
                     trades == MetricsFile(row.direction)
                     finals == [i \in 1..Len(trades) |-> trades[i].final_return]
                     returns == [i \in 1..Len(trades) |-> trades[i].max_return]
                     drawdowns == [i \in 1..Len(trades) |-> trades[i].max_drawdown]
                 IN /\ row.trade_count = Len(trades)
                    /\ row.trade_count = Cardinality(DOMAIN Folder(row.direction))
                    /\ row.sum_final_return = Total(finals)
                    /\ row.sum_max_return = Total(returns)
                    /\ row.sum_max_drawdown = Total(drawdowns)
                    /\ IF row.trade_count = 0
                       THEN /\ row.avg_final_return.num = 0 /\ row.avg_final_return.den # 0
                            /\ row.avg_max_return.num = 0 /\ row.avg_max_return.den # 0
                            /\ row.avg_max_drawdown.num = 0 /\ row.avg_max_drawdown.den # 0
                       ELSE /\ IsQuotient(row.avg_final_return, Total(finals), row.trade_count)
                            /\ IsQuotient(row.avg_max_return, Total(returns), row.trade_count)
                            /\ IsQuotient(row.avg_max_drawdown, Total(drawdowns), row.trade_count)

\* One direction without trades beside a direction with two.
C7_Witness ==
    /\ last = "analyze"
    /\ Generated
    /\ analysisDir["summary.csv"][1].trade_count = 0
    /\ analysisDir["summary.csv"][2].trade_count = 2
    /\ analysisDir["summary.csv"][2].sum_max_return # analysisDir["summary.csv"][2].sum_max_drawdown

\* C8: once the pipeline has run in full (generate, then analyze), running
\* either program again on the same input and configuration leaves every
\* persisted file as it is.
C8_Idempotent ==
    [][done => /\ buyDir' = buyDir
               /\ shortDir' = shortDir
               /\ analysisDir' = analysisDir]_vars

\* The generator has run again after a full run that wrote trades.
C8_Witness ==
    /\ done
    /\ last = "generate"
    /\ windows # << >>
    /\ pre.buy # NoFiles
    /\ Len(analysisDir["buy_metrics.csv"]) + Len(analysisDir["short_metrics.csv"]) >= 2

====
